---- MODULE Spec2Model ----
(***************************************************************************)
(* fia: Figura avatar files (moon.rs), their conversion into Blockbench     *)
(* outliner items and elements (bbmodel.rs), and the repack command of the  *)
(* command line (main.rs).                                                  *)
(*                                                                          *)
(* Four specifications share the variables:                                 *)
(*   Spec      ModelPart::convert_elements / hierarchy and the identifier   *)
(*             derivation they rely on                                      *)
(*   MeshSpec  the packed mesh faces (tex, fac) encoded and decoded         *)
(*   FileSpec  an avatar serialized to a file and deserialized, and files   *)
(*             of other writers                                             *)
(*   CliSpec   fia repack with its editing options                          *)
(*                                                                          *)
(* Conventions of the translation                                           *)
(*   Option<T>     None is <<>>, Some(x) is <<x>>                           *)
(*   f64           a small integer; [f64; N] a tuple of them                *)
(*   u32 / u64     in the identifier derivation, naturals of WordBits /     *)
(*                 2*WordBits bits, so that the shift and the bitwise or of *)
(*                 get_uuid_with_salt are computed, not assumed; the mesh   *)
(*                 arrays keep their widths of 8, 16 and 32 bits            *)
(*   String        a TLA+ string; metadata.authors, which the program joins *)
(*                 and splits, is the sequence of its characters            *)
(*   HashMap       a function from the keys present                         *)
(*   SipHash, SHA1 kept symbolic: a digest is the key and the sequence of   *)
(*                 writes it was computed from (collision-free hashing)     *)
(*   serde         a document is a function from the field names present to *)
(*                 their values; gzip keeps the level around the document   *)
(***************************************************************************)
EXTENDS Integers, Sequences, FiniteSets, TLC

VARIABLES
  moon,      \* the avatar in memory (Moon)
  pc,        \* "idle" | "converting" | "done" | "panicked"
  mode,      \* which entry point consumed the part: "none" | "element" | "hierarchy"
  stack,     \* call stack of convert_elements (innermost frame last)
  elements,  \* the Vec<Element> convert_elements writes to
  result,    \* what the entry point returned
  uuidLog,   \* the (salt, uuid) pairs returned by get_uuid_with_salt so far
  ncalls,    \* number of get_uuid_with_salt calls made so far
  faces,     \* mesh codec: the face list handed to the encoder
  packed,    \* mesh codec: the stored mesh data (tex, fac at its width), if encoded
  unpacked,  \* mesh codec: what decoding the stored data returned, if decoded
  wire,      \* avatar file: the bytes of a .moon in flight, if any
  foreign,   \* avatar file: what another writer put into those bytes
  decoded,   \* avatar file: what deserialize_from returned for them, if read
  fs,        \* command line: the files by path (None where there is no file)
  cli,       \* command line: "start" | "exited" | "failed"
  args,      \* command line: the parsed Action the process ran, if it has run
  before,    \* command line: the avatar as loaded and the files as found
  applied    \* command line: whether MoonModifications::apply returned Ok

meshVars == <<faces, packed, unpacked>>

fileVars == <<wire, foreign, decoded>>

cliVars == <<fs, cli, args, before, applied>>

\* the variables the conversion does not touch
otherVars == <<meshVars, fileVars, cliVars>>

\* the variables of the conversion other than the avatar
convVars == <<pc, mode, stack, elements, result, uuidLog, ncalls>>

vars == <<moon, pc, mode, stack, elements, result, uuidLog, ncalls, meshVars, fileVars, cliVars>>

-----------------------------------------------------------------------------
(* Bounds of the model *)

WordBits == 4
MaxChildren == 2
MaxCalls == 2
MaxSalt == 1
NumTextureSlots == 1

-----------------------------------------------------------------------------
(* Rust's Option and integer helpers *)

None == <<>>
Some(x) == <<x>>
IsSome(o) == o # <<>>
Unwrap(o) == o[1]

RECURSIVE Pow2(_)
Pow2(n) == IF n = 0 THEN 1 ELSE 2 * Pow2(n - 1)

U32Max == Pow2(WordBits) - 1

\* x << n on a value of `width` bits (bits shifted out are lost)
Shl(x, n, width) == (x * Pow2(n)) % Pow2(width)

RECURSIVE BitOr(_, _)
BitOr(a, b) ==
  IF a = 0 THEN b
  ELSE IF b = 0 THEN a
  ELSE (IF (a % 2 = 1) \/ (b % 2 = 1) THEN 1 ELSE 0) + 2 * BitOr(a \div 2, b \div 2)

-----------------------------------------------------------------------------
(* std::hash: the hasher, and each Hash implementation as the sequence of   *)
(* writes it makes to the hasher                                            *)

Tok(w, s, n) == [w |-> w, s |-> s, n |-> n]

\* a hasher keyed per instance (what RandomState would give)
RandomState_new == [k0 |-> ncalls + 1, k1 |-> 0, stream |-> <<>>]

DefaultHasher_new == [k0 |-> 0, k1 |-> 0, stream |-> <<>>]

write(h, toks) == [h EXCEPT !.stream = @ \o toks]

finish(h) == [k0 |-> h.k0, k1 |-> h.k1, msg |-> h.stream]

NoDigest == [k0 |-> 0, k1 |-> 0, msg |-> <<>>]

hash_usize(n) == <<Tok("usize", "", n)>>
hash_isize(n) == <<Tok("isize", "", n)>>
hash_bool(b) == <<Tok("u8", "", IF b THEN 1 ELSE 0)>>
hash_str(s) == <<Tok("str", s, 0), Tok("u8", "", 255)>>

\* [T]::hash for integer T: the length, then the items
hash_int_slice(w, xs) == hash_usize(Len(xs)) \o [i \in 1..Len(xs) |-> Tok(w, "", xs[i])]

RECURSIVE hash_strs(_, _)
hash_strs(xs, i) == IF i > Len(xs) THEN <<>> ELSE hash_str(xs[i]) \o hash_strs(xs, i + 1)

hash_str_slice(xs) == hash_usize(Len(xs)) \o hash_strs(xs, 1)

hash_opt_str(o) == IF IsSome(o) THEN hash_isize(1) \o hash_str(Unwrap(o)) ELSE hash_isize(0)

ParentTypes ==
  << "None", "Head", "Body", "LeftArm", "RightArm", "LeftLeg", "RightLeg",
     "LeftElytra", "RightElytra", "Cape", "World", "Hud", "Camera", "Skull",
     "Portrait", "Arrow", "Trident", "Item", "LeftItemPivot", "RightItemPivot",
     "LeftSpyglassPivot", "RightSpyglassPivot", "LeftParrotPivot",
     "RightParrotPivot", "HelmetItemPivot", "HelmetPivot", "ChestplatePivot",
     "LeftShoulderPivot", "RightShoulderPivot", "LeggingsPivot",
     "LeftLeggingPivot", "RightLeggingPivot", "LeftBootPivot", "RightBootPivot",
     "LeftElytraPivot", "RightElytraPivot" >>

hash_ParentType(p) ==
  hash_isize((CHOOSE i \in 1..Len(ParentTypes) : ParentTypes[i] = p) - 1)

hash_opt_pt(o) ==
  IF IsSome(o) THEN hash_isize(1) \o hash_ParentType(Unwrap(o)) ELSE hash_isize(0)

\* Face: tex only (uv and rot are ignored)
hash_Face(face) == hash_usize(face.tex)

hash_opt_Face(o) ==
  IF IsSome(o) THEN hash_isize(1) \o hash_Face(Unwrap(o)) ELSE hash_isize(0)

\* Sided<Face>: n, s, u, d, w, e in declaration order
hash_Sided(c) ==
  hash_opt_Face(c.n) \o hash_opt_Face(c.s) \o hash_opt_Face(c.u) \o
  hash_opt_Face(c.d) \o hash_opt_Face(c.w) \o hash_opt_Face(c.e)

\* MeshData: tex and fac (vtx and uvs are ignored)
hash_MeshData(m) == hash_int_slice("u16", m.tex) \o hash_int_slice("u32", m.fac)

\* ModelData: the discriminant, then the hashed fields of the variant
hash_ModelData(d) ==
  CASE d.tag = "Group" -> hash_isize(0)
    [] d.tag = "Cube" -> hash_isize(1) \o hash_Sided(d.cube_data)
    [] d.tag = "Mesh" -> hash_isize(2) \o hash_MeshData(d.mesh_data)

hash_opt_nr(o) ==
  IF IsSome(o) THEN hash_isize(1) \o hash_int_slice("u32", Unwrap(o)) ELSE hash_isize(0)

hash_opt_cn(o) ==
  IF IsSome(o) THEN hash_isize(1) \o hash_str_slice(Unwrap(o)) ELSE hash_isize(0)

hash_opt_pr(o) ==
  IF IsSome(o) THEN hash_isize(1) \o hash_int_slice("u32", Unwrap(o)) ELSE hash_isize(0)

\* the fields of a ModelPart after piv, in declaration order
hash_ModelPart_tail(p) ==
  hash_opt_str(p.primary) \o hash_opt_str(p.secondary) \o hash_opt_pt(p.pt) \o
  hash_bool(p.vsb) \o hash_bool(p.smo) \o hash_ModelData(p.data) \o
  hash_opt_nr(p.nr) \o hash_opt_cn(p.cn) \o hash_opt_pr(p.pr)

\* a derive that feeds the pivot to the hasher
hash_piv_not_ignored(p) == [i \in 1..Len(p.piv) |-> Tok("f64", "", p.piv[i])]

\* a derive that feeds the animation payload to the hasher
hash_anim_not_ignored(p) == hash_opt_str(p.anim)

\* rot and piv carry #[derivative(Hash = "ignore")]: nothing is written
hash_rot_piv(p) == <<>>

\* anim carries #[derivative(Hash = "ignore")]: nothing is written
hash_anim(p) == <<>>

RECURSIVE hash_ModelPart(_), hash_chld(_, _)
hash_ModelPart(p) ==
  hash_str(p.name) \o hash_usize(Len(p.chld)) \o hash_chld(p.chld, 1) \o
  hash_anim(p) \o hash_rot_piv(p) \o hash_ModelPart_tail(p)

hash_chld(chld, i) ==
  IF i > Len(chld) THEN <<>> ELSE hash_ModelPart(chld[i]) \o hash_chld(chld, i + 1)

-----------------------------------------------------------------------------
(* uuid::Uuid and ModelPart::get_uuid_with_salt *)

CONVERT_NS == "82703e95-07cb-41eb-8591-0ae63fc1e2db"

Uuid_from_u64_pair(high, low) ==
  [kind |-> "pair", hi |-> high, lo |-> low, ns |-> "", name |-> NoDigest]

Uuid_new_v5(namespace, digest) ==
  [kind |-> "v5", hi |-> 0, lo |-> 0, ns |-> namespace, name |-> digest]

\* BoxedUUID::default(): a random identifier (its bits are never read)
Uuid_new_v4 == [kind |-> "v4", hi |-> 0, lo |-> 0, ns |-> "", name |-> NoDigest]

Uuid_to_string(u) == [hyphenated |-> u]

\* the shift done on the u32 before it is widened: the high word is lost
u64_of_words_narrow(a, b) == BitOr(Shl(a, WordBits, WordBits), b)

\* (a as u64) << 32 | b as u64
u64_of_words(a, b) == BitOr(Shl(a, WordBits, 2 * WordBits), b)

\* a salt handed down unchanged instead of read from the vector
salt_fixed(elems) == 0

\* self.get_uuid_with_salt(elements.len())
salt_of(elems) == Len(elems)

get_uuid_with_salt(self, salt) ==
  IF IsSome(self.nr)
  THEN LET x == Unwrap(self.nr)
       IN Uuid_from_u64_pair(u64_of_words(x[1], x[2]), u64_of_words(x[3], x[4]))
  ELSE Uuid_new_v5(CONVERT_NS,
                   finish(write(write(DefaultHasher_new, hash_usize(salt)),
                                hash_ModelPart(self))))

-----------------------------------------------------------------------------
(* moon.rs data: ModelPart, ModelData, Sided<Face>, Face, MeshData *)

V3(x) == <<x, x, x>>

Face(tex, uv, rot) == [tex |-> tex, uv |-> uv, rot |-> rot]

Sided(n, s, u, d, w, e) == [n |-> n, s |-> s, u |-> u, d |-> d, w |-> w, e |-> e]

SideNames == {"n", "s", "u", "d", "w", "e"}

Group == [tag |-> "Group"]

Cube(cube_data, f, t, inf) ==
  [tag |-> "Cube", cube_data |-> cube_data, f |-> f, t |-> t, inf |-> inf]

MeshData(vtx, tex, fac, uvs) == [vtx |-> vtx, tex |-> tex, fac |-> fac, uvs |-> uvs]

Mesh(mesh_data) == [tag |-> "Mesh", mesh_data |-> mesh_data]

\* a decoded ModelPart with every optional field absent (vsb defaults to true)
ModelPart(name, data, chld) ==
  [name |-> name, chld |-> chld, anim |-> None, rot |-> V3(0), piv |-> V3(0),
   primary |-> None, secondary |-> None, pt |-> None, vsb |-> TRUE, smo |-> FALSE,
   data |-> data, nr |-> None, cn |-> None, pr |-> None]

-----------------------------------------------------------------------------
(* bbmodel.rs data: Face, Faces, ElementType, Element, Group, OutlinerItem *)

\* a conversion that loses the texture index
Face_into_untextured(face) == [rotation |-> face.rot, texture |-> None, uv |-> face.uv]

\* impl Into<bbmodel::Face> for Face
Face_into(face) == [rotation |-> face.rot, texture |-> Some(face.tex), uv |-> face.uv]

\* side.map(Into::into).unwrap_or_default()
convert_side(side) == IF IsSome(side) THEN Some(Face_into(Unwrap(side))) ELSE None

\* a mapping that takes north from the s slot and south from the n slot
Faces_swapped(cube_data) ==
  [north |-> convert_side(cube_data.s),
   east  |-> convert_side(cube_data.e),
   south |-> convert_side(cube_data.n),
   west  |-> convert_side(cube_data.w),
   up    |-> convert_side(cube_data.u),
   down  |-> convert_side(cube_data.d)]

Faces(cube_data) ==
  [north |-> convert_side(cube_data.n),
   east  |-> convert_side(cube_data.e),
   south |-> convert_side(cube_data.s),
   west  |-> convert_side(cube_data.w),
   up    |-> convert_side(cube_data.u),
   down  |-> convert_side(cube_data.d)]

\* a conversion that treats an inflate of 0 as no inflate
ElementType_Cube_nonzero(data) ==
  [type |-> "cube", from |-> data.f, to |-> data.t, uv_offset |-> None,
   faces |-> Faces(data.cube_data), autouv |-> 0, box_uv |-> None,
   inflate |-> IF data.inf = 0 THEN None ELSE Some(data.inf),
   light_emission |-> None, mirror_uv |-> Some(FALSE), rescale |-> FALSE, shade |-> None]

ElementType_Cube(data) ==
  [type |-> "cube", from |-> data.f, to |-> data.t, uv_offset |-> None,
   faces |-> Faces(data.cube_data), autouv |-> 0, box_uv |-> None,
   inflate |-> Some(data.inf), light_emission |-> None, mirror_uv |-> Some(FALSE),
   rescale |-> FALSE, shade |-> None]

Element(self, uuid) ==
  [allow_mirror_modeling |-> TRUE, color |-> 0, export |-> Some(TRUE),
   extra |-> ElementType_Cube(self.data), locked |-> FALSE, name |-> self.name,
   origin |-> self.piv, render_order |-> None, rotation |-> self.rot,
   uuid |-> Uuid_to_string(uuid), visibility |-> Some(self.vsb)]

\* impl Default for Group
Group_default ==
  [tag |-> "Group", name |-> "", origin |-> V3(0), color |-> 0,
   uuid |-> Uuid_to_string(Uuid_new_v4),
   export |-> TRUE, mirror_uv |-> FALSE, isOpen |-> FALSE, locked |-> FALSE,
   visibility |-> TRUE, autouv |-> 0, children |-> <<>>]

\* a conversion that hands back a reference where the Group item belongs
OutlinerItem_Reference(self, uuid, children) ==
  [tag |-> "Element", uuid |-> Uuid_to_string(uuid)]

\* OutlinerItem::Group(Group { name, origin, children, uuid, ..Default::default() })
OutlinerItem_Group(self, uuid, children) ==
  [Group_default EXCEPT !.name = self.name, !.origin = self.piv,
                        !.children = children, !.uuid = Uuid_to_string(uuid)]

\* a reference that carries a fresh identifier instead of the one it was given
OutlinerItem_Element_fresh(uuid) == [tag |-> "Element", uuid |-> Uuid_to_string(Uuid_new_v4)]

\* OutlinerItem::Element(part.uuid.clone())
OutlinerItem_Element(uuid) == [tag |-> "Element", uuid |-> uuid]

-----------------------------------------------------------------------------
(* The model parts the operations are run on *)

UpFace == Face(0, <<0, 0, 16, 16>>, 0)

\* the cube of the end-to-end scenario, at a given pivot
BoxCube(piv) ==
  [ModelPart("box", Cube(Sided(None, None, Some(UpFace), None, None, None),
                         V3(0), V3(1), 0), <<>>) EXCEPT !.piv = piv]

\* a hidden, inflated, rotated cube whose north face names a texture slot
\* past the end of textures.data
OddCube ==
  [ModelPart("odd", Cube(Sided(Some(Face(NumTextureSlots, <<1, 1, 2, 2>>, 1)),
                               None, None, None, None, Some(UpFace)),
                         V3(1), V3(0), 1), <<>>)
     EXCEPT !.vsb = FALSE, !.rot = V3(1)]

\* a cube whose six sides differ from one another in texture, UV and rotation
SixCube ==
  LET side(k) == Some(Face(k, <<k, k, k + 1, k + 1>>, k))
  IN ModelPart("six", Cube(Sided(side(0), side(1), side(2), side(3), side(4), side(5)),
                           V3(0), V3(2), 0), <<>>)

Triangle ==
  ModelPart("tri", Mesh(MeshData(<<0, 0, 0, 1, 0, 0, 0, 1, 0>>, <<3>>, <<0, 1, 2>>,
                                 <<0, 0, 1, 0, 0, 1>>)), <<>>)

EmptyGroup == ModelPart("grp", Group, <<>>)

\* the part of the end-to-end scenario
ScenarioRoot == ModelPart("root", Group, <<BoxCube(V3(0))>>)

ChildLeaves == {BoxCube(V3(0)), BoxCube(V3(1)), OddCube, Triangle, EmptyGroup}

RECURSIVE SeqsUpTo(_, _)
SeqsUpTo(S, n) ==
  IF n = 0 THEN {<<>>}
  ELSE LET shorter == SeqsUpTo(S, n - 1)
       IN shorter \cup {Append(q, x) : q \in {r \in shorter : Len(r) = n - 1}, x \in S}

ChildSeqs == SeqsUpTo(ChildLeaves, MaxChildren)

RootData == {Group, BoxCube(V3(0)).data, Triangle.data}

StoredIds == {<<1, 0, U32Max, 2>>, <<0, U32Max, U32Max, 0>>}

\* one level of children under a root of each variant
FlatRoots == {ModelPart("root", d, cs) : d \in RootData, cs \in ChildSeqs}

\* roots that carry a stored identifier
StoredRoots ==
  {[ModelPart("root", d, cs) EXCEPT !.nr = Some(id)] :
     d \in RootData, cs \in {<<>>, <<BoxCube(V3(0))>>}, id \in StoredIds}

\* two levels: an inner group before or after a leaf
DeepRoots ==
  {ModelPart("root", Group, <<ModelPart("grp", Group, <<a>>), b>>) :
     a \in ChildLeaves, b \in ChildLeaves}
  \cup
  {ModelPart("root", Group, <<b, ModelPart("grp", Group, <<a>>)>>) :
     a \in ChildLeaves, b \in ChildLeaves}

\* a cube or a mesh that has a child of its own, below a root group
NestedRoots ==
  {ModelPart("root", Group, <<[inner EXCEPT !.chld = <<a>>], b>>) :
     inner \in {BoxCube(V3(1)), Triangle}, a \in {BoxCube(V3(0)), EmptyGroup},
     b \in {BoxCube(V3(0))}}

\* the six-sided cube, alone and before a cube with a single side
SidedRoots == {SixCube, ModelPart("root", Group, <<SixCube, BoxCube(V3(0))>>)}

\* a hidden Group: alone, and over a hidden cube next to a visible one
HiddenGroup == [ModelPart("hid", Group, <<>>) EXCEPT !.vsb = FALSE]

HiddenRoots ==
  {HiddenGroup,
   ModelPart("root", Group, <<[HiddenGroup EXCEPT !.chld = <<OddCube>>], BoxCube(V3(0))>>)}

Roots ==
  FlatRoots \cup StoredRoots \cup DeepRoots \cup NestedRoots \cup SidedRoots \cup HiddenRoots

TextureData == [d |-> "skin", e |-> None]

-----------------------------------------------------------------------------
(* Mesh faces: the packed tex array and the fac index array *)

\* a mesh face as the codec exchanges it
MeshFace(texture, vertices) == [texture |-> texture, vertices |-> vertices]

\* pub tex: Vec<u16>
TexBits == 16

\* "the texture ID left-shifted 4, plus the number of vertices in the face"
CountBits == 4

\* enum Fac { U8, U16, U32 }
FacWidths == {8, 16, 32}

\* x fits an unsigned integer of `bits` bits (written so that 2^32 is never
\* computed)
Fits(x, bits) == x \div Pow2(bits - 2) < 4

\* the `as` cast to an unsigned integer of `bits` bits
Truncate(x, bits) == IF Fits(x, bits) THEN x ELSE x % Pow2(bits)

\* U16 arm read as if it held bytes
Fac_into_narrow(fac) == [i \in DOMAIN fac.items |-> fac.items[i] % Pow2(8)]

\* match data.fac { U8(x) | U16(x) => each item .into() u32, U32(x) => x }:
\* every item is zero-extended from its width
Fac_into(fac) == [i \in DOMAIN fac.items |-> Truncate(fac.items[i], fac.width)]

\* impl Deserialize for MeshData, on the tex and fac of the delegate
MeshData_deserialize(data) == [tex |-> data.tex, fac |-> Fac_into(data.fac)]

RECURSIVE Concat(_)
Concat(seqs) == IF seqs = <<>> THEN <<>> ELSE Head(seqs) \o Concat(Tail(seqs))

\* encode_mesh_faces, with the fac array stored at the given width
encode_mesh_faces(fl, width) ==
  [tex |-> [i \in DOMAIN fl |->
              Truncate(BitOr(fl[i].texture * Pow2(CountBits), Len(fl[i].vertices)),
                       TexBits)],
   fac |-> [width |-> width,
            items |-> [i \in DOMAIN Concat([j \in DOMAIN fl |-> fl[j].vertices]) |->
                         Truncate(Concat([j \in DOMAIN fl |-> fl[j].vertices])[i], width)]]]

FormatError == [kind |-> "FormatError"]

\* decode_mesh_faces: walk tex in order, each entry consumes vertex_count
\* entries of fac
RECURSIVE decode_from(_, _, _)
decode_from(tex, fac, done) ==
  IF tex = <<>> THEN [kind |-> "Ok", faces |-> done]
  ELSE LET count == Head(tex) % Pow2(CountBits)
           texture == Head(tex) \div Pow2(CountBits)
       IN IF count = 0 \/ Len(fac) < count THEN FormatError
          ELSE decode_from(Tail(tex), SubSeq(fac, count + 1, Len(fac)),
                           Append(done, MeshFace(texture, SubSeq(fac, 1, count))))

decode_mesh_faces(tex, fac) == decode_from(tex, fac, <<>>)

\* bounds of the face lists
MaxFaces == 2

MaxTexture == Pow2(TexBits - CountBits) - 1

FaceTextures == {0, MaxTexture, MaxTexture + 1}

\* 1, 3 and 15 vertices; indices at the edge of each width; 0 and 16 vertices
VertexLists ==
  {<<0>>, <<0, 1, 2>>, <<Pow2(8) - 1, Pow2(8)>>, <<Pow2(16) - 1, Pow2(16), 7>>,
   [i \in 1..(Pow2(CountBits) - 1) |-> i - 1], <<>>, [i \in 1..Pow2(CountBits) |-> i - 1]}

MeshFaces == {MeshFace(t, v) : t \in FaceTextures, v \in VertexLists}

FaceLists == SeqsUpTo(MeshFaces, MaxFaces)

\* no mesh codec run in progress
MeshIdle == faces = <<>> /\ packed = None /\ unpacked = None

-----------------------------------------------------------------------------
(* The avatar, and its serde form: a document is a map from field names to  *)
(* values (an NBT compound); a file is a gzip member around a named root    *)

\* a value of type String that the program takes apart: its characters
Str(chars) == chars

Metadata(authors) ==
  [uuid |-> "", authors |-> authors, color |-> None, bg |-> None, id |-> None,
   name |-> "", description |-> "", ver |-> ""]

Textures(src, data) == [src |-> src, data |-> data]

\* a map without entries (HashMap::new(), a compound without tags)
Empty == [k \in {} |-> k]

Moon(textures, scripts, models, metadata) ==
  [textures |-> textures, scripts |-> scripts, animations |-> <<>>,
   models |-> models, resources |-> Empty, metadata |-> metadata]

Ok(v) == [ok |-> TRUE, val |-> v]
Err == [ok |-> FALSE]

\* serde without the attribute: fields the struct does not name are skipped
allow_unknown_fields(doc, known) == TRUE

\* #[serde(deny_unknown_fields)]
deny_unknown_fields(doc, known) == DOMAIN doc \subseteq known

\* fields without a default and not of type Option must be present
has_fields(doc, required) == required \subseteq DOMAIN doc

\* #[serde(default)], with the default the field's type or function gives
field_or(doc, k, default) == IF k \in DOMAIN doc THEN doc[k] ELSE default

\* a field of type Option<T> whose T needs no conversion
field_opt(doc, k) == IF k \in DOMAIN doc THEN Some(doc[k]) ELSE None

\* None written as a tag of its own
optional_written(k, o) == k :> o

\* serializing a field of type Option<T>: None writes no tag
optional(k, o) == IF IsSome(o) THEN k :> Unwrap(o) ELSE Empty

Face_serialize(face) == [tex |-> face.tex, uv |-> face.uv, rot |-> face.rot]

FaceFields == {"tex", "uv", "rot"}

Face_deserialize(doc) ==
  IF deny_unknown_fields(doc, FaceFields) /\ has_fields(doc, {"tex", "uv"})
  THEN Ok(Face(doc.tex, doc.uv, field_or(doc, "rot", 0)))
  ELSE Err

Sided_serialize(sided) ==
  [k \in {sd \in SideNames : IsSome(sided[sd])} |-> Face_serialize(Unwrap(sided[k]))]

Sided_deserialize(doc) ==
  LET side(k) == IF k \in DOMAIN doc THEN Some(Face_deserialize(doc[k]).val) ELSE None
  IN IF /\ deny_unknown_fields(doc, SideNames)
        /\ \A k \in DOMAIN doc : Face_deserialize(doc[k]).ok
     THEN Ok(Sided(side("n"), side("s"), side("u"), side("d"), side("w"), side("e")))
     ELSE Err

\* derived Serialize of MeshData: fac is written as the Vec<u32> it is
MeshData_serialize(mesh_data) ==
  [vtx |-> mesh_data.vtx, tex |-> mesh_data.tex,
   fac |-> [width |-> 32, items |-> mesh_data.fac], uvs |-> mesh_data.uvs]

MeshFields == {"vtx", "tex", "fac", "uvs"}

MeshDataDelegate_deserialize(doc) ==
  IF deny_unknown_fields(doc, MeshFields) /\ has_fields(doc, MeshFields)
  THEN Ok(doc)
  ELSE Err

\* impl Deserialize for MeshData, with the delegate's error passed on by `?`
MeshData_from_doc(doc) ==
  LET data == MeshDataDelegate_deserialize(doc)
  IN IF data.ok
     THEN Ok(MeshData(data.val.vtx, MeshData_deserialize(data.val).tex,
                      MeshData_deserialize(data.val).fac, data.val.uvs))
     ELSE Err

ModelData_serialize(data) ==
  CASE data.tag = "Group" -> Empty
    [] data.tag = "Cube" -> [cube_data |-> Sided_serialize(data.cube_data),
                             f |-> data.f, t |-> data.t, inf |-> data.inf]
    [] data.tag = "Mesh" -> [mesh_data |-> MeshData_serialize(data.mesh_data)]

CubeFields == {"cube_data", "f", "t", "inf"}

\* the variants of ModelData as the untagged enum tries them
Group_deserialize(doc) ==
  IF deny_unknown_fields(doc, {}) THEN Ok(Group) ELSE Err

Cube_deserialize(doc) ==
  IF /\ deny_unknown_fields(doc, CubeFields)
     /\ has_fields(doc, {"cube_data", "f", "t"})
     /\ Sided_deserialize(doc.cube_data).ok
  THEN Ok(Cube(Sided_deserialize(doc.cube_data).val, doc.f, doc.t,
               field_or(doc, "inf", 0)))
  ELSE Err

Mesh_deserialize(doc) ==
  IF /\ deny_unknown_fields(doc, {"mesh_data"})
     /\ has_fields(doc, {"mesh_data"})
     /\ MeshData_from_doc(doc.mesh_data).ok
  THEN Ok(Mesh(MeshData_from_doc(doc.mesh_data).val))
  ELSE Err

\* an untagged enum whose first variant is taken without looking at the rest
first_variant(tries) == tries[1]

\* #[serde(untagged)]: the first variant that deserializes, in declaration
\* order; an error when none does
untagged(tries) ==
  IF \E i \in DOMAIN tries : tries[i].ok
  THEN tries[CHOOSE i \in DOMAIN tries : tries[i].ok /\ \A j \in 1..(i - 1) : ~tries[j].ok]
  ELSE Err

ModelData_deserialize(doc) ==
  untagged(<<Group_deserialize(doc), Cube_deserialize(doc), Mesh_deserialize(doc)>>)

\* the fields ModelPart names itself; every other key of a node goes to the
\* flattened `data`
PartFields == {"name", "chld", "anim", "rot", "piv", "primary", "secondary", "pt",
               "vsb", "smo", "nr", "cn", "pr"}

RECURSIVE ModelPart_serialize(_)
ModelPart_serialize(p) ==
  [name |-> p.name,
   chld |-> [i \in DOMAIN p.chld |-> ModelPart_serialize(p.chld[i])],
   rot |-> p.rot, piv |-> p.piv, vsb |-> p.vsb, smo |-> p.smo]
  @@ optional("anim", p.anim) @@ optional("primary", p.primary)
  @@ optional("secondary", p.secondary) @@ optional("pt", p.pt)
  @@ ModelData_serialize(p.data)
  @@ optional("nr", p.nr) @@ optional("cn", p.cn) @@ optional("pr", p.pr)

RECURSIVE ModelPart_deserialize(_)
ModelPart_deserialize(doc) ==
  LET collect == [k \in DOMAIN doc \ PartFields |-> doc[k]]
      data == ModelData_deserialize(collect)
      chld == field_or(doc, "chld", <<>>)
  IN IF /\ has_fields(doc, {"name"})
        /\ data.ok
        /\ \A i \in DOMAIN chld : ModelPart_deserialize(chld[i]).ok
     THEN Ok([name |-> doc.name,
              chld |-> [i \in DOMAIN chld |-> ModelPart_deserialize(chld[i]).val],
              anim |-> field_opt(doc, "anim"),
              rot |-> field_or(doc, "rot", V3(0)),
              piv |-> field_or(doc, "piv", V3(0)),
              primary |-> field_opt(doc, "primary"),
              secondary |-> field_opt(doc, "secondary"),
              pt |-> field_opt(doc, "pt"),
              vsb |-> field_or(doc, "vsb", TRUE),
              smo |-> field_or(doc, "smo", FALSE),
              data |-> data.val,
              nr |-> field_opt(doc, "nr"),
              cn |-> field_opt(doc, "cn"),
              pr |-> field_opt(doc, "pr")])
     ELSE Err

TextureData_serialize(td) == [d |-> td.d] @@ optional("e", td.e)

TextureData_deserialize(doc) ==
  IF deny_unknown_fields(doc, {"d", "e"}) /\ has_fields(doc, {"d"})
  THEN Ok([d |-> doc.d, e |-> field_opt(doc, "e")])
  ELSE Err

Textures_serialize(textures) ==
  [src |-> textures.src,
   data |-> [i \in DOMAIN textures.data |-> TextureData_serialize(textures.data[i])]]

Textures_deserialize(doc) ==
  LET data == field_or(doc, "data", <<>>)
  IN IF /\ deny_unknown_fields(doc, {"src", "data"})
        /\ \A i \in DOMAIN data : TextureData_deserialize(data[i]).ok
     THEN Ok(Textures(field_or(doc, "src", Empty),
                      [i \in DOMAIN data |-> TextureData_deserialize(data[i]).val]))
     ELSE Err

Metadata_serialize(metadata) ==
  [uuid |-> metadata.uuid, authors |-> metadata.authors, name |-> metadata.name,
   description |-> metadata.description, ver |-> metadata.ver]
  @@ optional("color", metadata.color) @@ optional("bg", metadata.bg)
  @@ optional("id", metadata.id)

MetadataFields == {"uuid", "authors", "color", "bg", "id", "name", "description", "ver"}

Metadata_deserialize(doc) ==
  IF deny_unknown_fields(doc, MetadataFields)
  THEN Ok([uuid |-> field_or(doc, "uuid", ""),
           authors |-> field_or(doc, "authors", Str(<<>>)),
           color |-> field_opt(doc, "color"),
           bg |-> field_opt(doc, "bg"),
           id |-> field_opt(doc, "id"),
           name |-> field_or(doc, "name", ""),
           description |-> field_or(doc, "description", ""),
           ver |-> field_or(doc, "ver", "")])
  ELSE Err

Moon_serialize(m) ==
  [textures |-> Textures_serialize(m.textures), scripts |-> m.scripts,
   animations |-> m.animations, resources |-> m.resources,
   metadata |-> Metadata_serialize(m.metadata)]
  @@ (IF IsSome(m.models) THEN "models" :> ModelPart_serialize(Unwrap(m.models))
      ELSE Empty)

MoonFields == {"textures", "scripts", "animations", "models", "resources", "metadata"}

Moon_deserialize(doc) ==
  LET textures == IF "textures" \in DOMAIN doc THEN Textures_deserialize(doc.textures)
                  ELSE Ok(Textures(Empty, <<>>))
      models == IF "models" \in DOMAIN doc
                THEN (IF ModelPart_deserialize(doc.models).ok
                      THEN Ok(Some(ModelPart_deserialize(doc.models).val)) ELSE Err)
                ELSE Ok(None)
      metadata == IF "metadata" \in DOMAIN doc THEN Metadata_deserialize(doc.metadata)
                  ELSE Ok(Metadata(Str(<<>>)))
  IN IF /\ deny_unknown_fields(doc, MoonFields)
        /\ textures.ok /\ models.ok /\ metadata.ok
     THEN Ok([textures |-> textures.val,
              scripts |-> field_or(doc, "scripts", Empty),
              animations |-> field_or(doc, "animations", <<>>),
              models |-> models.val,
              resources |-> field_or(doc, "resources", Empty),
              metadata |-> metadata.val])
     ELSE Err

\* flate2::Compression: none() is 0, default() is 6, best() is 9
Compression_none == 0
Compression_default == 6
Compression_best == 9

\* quartz_nbt::serde::serialize(&moon, Some(&name), GzCompressedWith(level)):
\* the gzip member keeps the level it was written with
serialize(m, name, level) == [gz |-> level, name |-> name, root |-> Moon_serialize(m)]

\* quartz_nbt::serde::deserialize_from(file, GzCompressed): (Moon, String)
deserialize_from(file) ==
  IF Moon_deserialize(file.root).ok
  THEN Ok([moon |-> Moon_deserialize(file.root).val, name |-> file.name])
  ELSE Err

NotForeign == [kind |-> "none"]

\* no avatar file in flight
FileIdle == wire = None /\ foreign = NotForeign /\ decoded = None

-----------------------------------------------------------------------------
(* MoonModifications and the files of the command line *)

NL == Str(<<"\n">>)

\* [String]::join
RECURSIVE join(_, _)
join(list, sep) ==
  IF list = <<>> THEN Str(<<>>)
  ELSE IF Len(list) = 1 THEN list[1]
  ELSE list[1] \o sep \o join(Tail(list), sep)

\* str::split on a character, collected
RECURSIVE split(_, _)
split(str, c) ==
  IF \A i \in DOMAIN str : str[i] # c THEN <<str>>
  ELSE LET i == CHOOSE k \in DOMAIN str : str[k] = c /\ \A j \in 1..(k - 1) : str[j] # c
       IN <<SubSeq(str, 1, i - 1)>> \o split(SubSeq(str, i + 1, Len(str)), c)

Placeholder == Str(<<"?">>)

\* the condition tested on the empty string alone
is_empty(authors) == authors = Str(<<>>)

\* moon.metadata.authors == "" || moon.metadata.authors == "?"
is_unspecified(authors) == authors = Str(<<>>) \/ authors = Placeholder

\* the authors field overwritten with the added authors
set_authors(authors, add_author) == join(add_author, NL)

\* authors += "\n"; authors += &add_author.join("\n")
push_authors(authors, add_author) == authors \o NL \o join(add_author, NL)

\* HashMap::remove for each name (a missing name is a warning only)
remove_all(map, names) ==
  [k \in DOMAIN map \ {names[i] : i \in DOMAIN names} |-> map[k]]

\* an insert that keeps the value an existing key has
insert_if_absent(map, name, bytes) == map @@ (name :> bytes)

\* HashMap::insert
insert(map, name, bytes) == (name :> bytes) @@ map

\* for (name, path) in pairs { File::open(path)?.read_to_end(&mut buf);
\* map.insert(name, buf.into()) }: the first file that cannot be opened ends
\* apply, with the earlier inserts done
RECURSIVE insert_files(_, _, _)
insert_files(map, pairs, files) ==
  IF pairs = <<>> THEN [map |-> map, ok |-> TRUE]
  ELSE LET name == pairs[1][1]
           path == pairs[1][2]
       IN IF ~IsSome(files[path]) THEN [map |-> map, ok |-> FALSE]
          ELSE insert_files(insert(map, name, Unwrap(files[path])), Tail(pairs), files)

\* MoonModifications::apply: the avatar it leaves and whether it returned Ok
\* (format_scripts only prints a warning without the stylua feature)
apply(modify, m, files) ==
  LET authors == IF Len(modify.add_author) > 0
                 THEN (IF is_unspecified(m.metadata.authors)
                       THEN join(modify.add_author, NL)
                       ELSE push_authors(m.metadata.authors, modify.add_author))
                 ELSE m.metadata.authors
      scripts == insert_files(remove_all(m.scripts, modify.remove_script),
                              modify.add_script, files)
      src == IF scripts.ok
             THEN insert_files(remove_all(m.textures.src, modify.remove_texture),
                               modify.add_texture, files)
             ELSE [map |-> remove_all(m.textures.src, modify.remove_texture),
                   ok |-> FALSE]
  IN [moon |-> [m EXCEPT !.metadata.authors = authors,
                         !.scripts = scripts.map,
                         !.textures.src = src.map],
      ok |-> scripts.ok /\ src.ok]

\* Action::Unpack reading the authors field: the lines, where the single
\* line "?" stands for no author
authors_of(authors) ==
  LET v == split(authors, "\n")
  IN IF v = <<Placeholder>> THEN <<>> ELSE v

\* the length of a gzip stream, kept abstract: it grows with the content, and
\* a stored stream (level 0) is longer than a deflated one
file_len(file) ==
  LET n == Len(file.root.metadata.authors) + Cardinality(DOMAIN file.root.scripts)
             + Cardinality(DOMAIN file.root.textures.src) + 1
  IN IF file.gz = Compression_none THEN 2 * n ELSE n

\* --no-compress / --compress [n]
compression(no_compress, compress) ==
  IF no_compress THEN Compression_none
  ELSE IF compress = None THEN Compression_default
  ELSE IF compress = Some(None) THEN Compression_best
  ELSE Unwrap(Unwrap(compress))

\* no process of the command line has run
CliIdle ==
  /\ fs = Empty
  /\ cli = "start"
  /\ args = None
  /\ before = None
  /\ applied = None

-----------------------------------------------------------------------------
(* State machine *)

NoResult == [kind |-> "none"]

\* an avatar with the given model tree, one texture set per slot, no
\* scripts and unspecified authors
LoadedMoon(models) ==
  Moon(Textures(Empty, [i \in 1..NumTextureSlots |-> TextureData]), Empty, models,
       Metadata(Str(<<"?">>)))

Init ==
  /\ moon \in {LoadedMoon(Some(r)) : r \in Roots}
  /\ pc = "idle"
  /\ mode = "none"
  /\ stack = <<>>
  /\ elements = <<>>
  /\ result = NoResult
  /\ uuidLog = {}
  /\ ncalls = 0
  /\ MeshIdle
  /\ FileIdle
  /\ CliIdle

\* let mut node = moon.models.unwrap();
node == Unwrap(moon.models)

\* a call of convert_elements in progress: `uuid` was derived on entry,
\* `next` is the child the Group arm's iterator yields next, `out` the items
\* collected so far
Frame(part, uuid) == [fn |-> "convert_elements", part |-> part, uuid |-> uuid,
                      next |-> 1, out |-> <<>>]

\* hierarchy() iterating over self.chld
HierarchyFrame(part) == [fn |-> "hierarchy", part |-> part, uuid |-> Uuid_new_v4,
                         next |-> 1, out |-> <<>>]

Top == stack[Len(stack)]

Pop == SubSeq(stack, 1, Len(stack) - 1)

\* the value a finished call hands to the iterator of its caller, or to the
\* command when it was the outermost call
Deliver(item, elems) ==
  IF Len(stack) = 1
  THEN /\ stack' = <<>>
       /\ pc' = "done"
       /\ result' = [kind |-> "item", item |-> item, elements |-> elems]
  ELSE /\ stack' = [Pop EXCEPT ![Len(stack) - 1].out = Append(@, item)]
       /\ pc' = pc
       /\ result' = result

\* get_uuid_with_salt called on the part by a user of the library
GetUuid(salt) ==
  /\ pc = "idle"
  /\ ncalls < MaxCalls
  /\ uuidLog' = uuidLog \cup {[salt |-> salt, uuid |-> get_uuid_with_salt(node, salt)]}
  /\ ncalls' = ncalls + 1
  /\ UNCHANGED otherVars
  /\ UNCHANGED <<moon, pc, mode, stack, elements, result>>

\* Action::Element without --hierarchy: node.convert_elements(&mut elements)
\* is entered with an empty vector
ConvertElements ==
  /\ pc = "idle"
  /\ pc' = "converting"
  /\ mode' = "element"
  /\ elements' = <<>>
  /\ stack' = <<Frame(node, get_uuid_with_salt(node, salt_of(<<>>)))>>
  /\ ncalls' = ncalls + 1
  /\ UNCHANGED otherVars
  /\ UNCHANGED <<moon, result, uuidLog>>

\* ModelPart::hierarchy on a part that is not a Group: the part comes back
HierarchyErr ==
  /\ pc = "idle"
  /\ node.data.tag # "Group"
  /\ pc' = "done"
  /\ mode' = "hierarchy"
  /\ result' = [kind |-> "Err", part |-> node]
  /\ UNCHANGED otherVars
  /\ UNCHANGED <<moon, stack, elements, uuidLog, ncalls>>

\* ModelPart::hierarchy on a Group: its children are converted in order
HierarchyStart ==
  /\ pc = "idle"
  /\ node.data.tag = "Group"
  /\ pc' = "converting"
  /\ mode' = "hierarchy"
  /\ elements' = <<>>
  /\ stack' = <<HierarchyFrame(node)>>
  /\ UNCHANGED otherVars
  /\ UNCHANGED <<moon, result, uuidLog, ncalls>>

\* the iterator of a Group arm (or of hierarchy) calls convert_elements on the
\* next child; the salt is the length of the vector at that moment
CallChild ==
  /\ pc = "converting"
  /\ Top.fn = "hierarchy" \/ Top.part.data.tag = "Group"
  /\ Top.next <= Len(Top.part.chld)
  /\ LET p == Top.part.chld[Top.next]
     IN stack' = Append([stack EXCEPT ![Len(stack)].next = @ + 1],
                        Frame(p, get_uuid_with_salt(p, salt_of(elements))))
  /\ ncalls' = ncalls + 1
  /\ UNCHANGED otherVars
  /\ UNCHANGED <<moon, pc, mode, elements, result, uuidLog>>

\* Group arm: every child converted, the Group item is returned
ReturnGroup ==
  /\ pc = "converting"
  /\ Top.fn = "convert_elements"
  /\ Top.part.data.tag = "Group"
  /\ Top.next > Len(Top.part.chld)
  /\ Deliver(OutlinerItem_Group(Top.part, Top.uuid, Top.out), elements)
  /\ UNCHANGED otherVars
  /\ UNCHANGED <<moon, mode, elements, uuidLog, ncalls>>

\* Cube arm: assert!(chld.len() == 0) fails and the thread panics
CubeAssertFails ==
  /\ pc = "converting"
  /\ Top.fn = "convert_elements"
  /\ Top.part.data.tag = "Cube"
  /\ Len(Top.part.chld) # 0
  /\ pc' = "panicked"
  /\ UNCHANGED otherVars
  /\ UNCHANGED <<moon, mode, stack, elements, result, uuidLog, ncalls>>

\* a push that puts the value in front of the ones already there
push_front(vec, value) == <<value>> \o vec

\* Vec::push
push(vec, value) == Append(vec, value)

\* Cube arm: the Element is pushed and a reference to it returned
ReturnCube ==
  /\ pc = "converting"
  /\ Top.fn = "convert_elements"
  /\ Top.part.data.tag = "Cube"
  /\ Len(Top.part.chld) = 0
  /\ LET part == Element(Top.part, Top.uuid)
     IN /\ elements' = push(elements, part)
        /\ Deliver(OutlinerItem_Element(part.uuid), push(elements, part))
  /\ UNCHANGED otherVars
  /\ UNCHANGED <<moon, mode, uuidLog, ncalls>>

\* Mesh arm: a Group item with default (empty) children is returned
ReturnMesh ==
  /\ pc = "converting"
  /\ Top.fn = "convert_elements"
  /\ Top.part.data.tag = "Mesh"
  /\ Deliver(OutlinerItem_Group(Top.part, Top.uuid, Group_default.children), elements)
  /\ UNCHANGED otherVars
  /\ UNCHANGED <<moon, mode, elements, uuidLog, ncalls>>

\* hierarchy(): Ok(Hierarchy { outliner, elements })
HierarchyOk ==
  /\ pc = "converting"
  /\ Top.fn = "hierarchy"
  /\ Top.next > Len(Top.part.chld)
  /\ stack' = <<>>
  /\ pc' = "done"
  /\ result' = [kind |-> "Ok", outliner |-> Top.out, elements |-> elements]
  /\ UNCHANGED otherVars
  /\ UNCHANGED <<moon, mode, elements, uuidLog, ncalls>>

Next ==
  \/ \E salt \in 0..MaxSalt : GetUuid(salt)
  \/ ConvertElements
  \/ HierarchyErr
  \/ HierarchyStart
  \/ CallChild
  \/ ReturnGroup
  \/ CubeAssertFails
  \/ ReturnCube
  \/ ReturnMesh
  \/ HierarchyOk

Spec == Init /\ [][Next]_vars

-----------------------------------------------------------------------------
(* The mesh codec run on a face list *)

\* the avatar and the conversion at rest
ConvIdle ==
  /\ moon = LoadedMoon(None)
  /\ pc = "idle"
  /\ mode = "none"
  /\ stack = <<>>
  /\ elements = <<>>
  /\ result = NoResult
  /\ uuidLog = {}
  /\ ncalls = 0

MeshInit ==
  /\ ConvIdle
  /\ FileIdle
  /\ CliIdle
  /\ faces \in FaceLists
  /\ packed = None
  /\ unpacked = None

\* the faces are encoded and stored with fac at one of the three widths
EncodeMesh(width) ==
  /\ packed = None
  /\ packed' = Some(encode_mesh_faces(faces, width))
  /\ UNCHANGED <<moon, convVars, fileVars, cliVars, faces, unpacked>>

\* the stored mesh data is deserialized (fac widened to u32) and decoded
DecodeMesh ==
  /\ IsSome(packed)
  /\ unpacked = None
  /\ LET data == MeshData_deserialize(Unwrap(packed))
     IN unpacked' = Some(decode_mesh_faces(data.tex, data.fac))
  /\ UNCHANGED <<moon, convVars, fileVars, cliVars, faces, packed>>

MeshNext ==
  \/ \E width \in FacWidths : EncodeMesh(width)
  \/ DecodeMesh

MeshSpec == MeshInit /\ [][MeshNext]_vars

-----------------------------------------------------------------------------
(* An avatar written to a file and read back; files of other writers *)

\* the name of the root tag
RootName == "avatar"

\* a part that has every optional field set
FullPart ==
  [ModelPart("full", Group, <<OddCube, Triangle>>)
     EXCEPT !.anim = Some("nbt"), !.primary = Some("CUTOUT"),
            !.secondary = Some("EMISSIVE"), !.pt = Some("Head"), !.smo = TRUE,
            !.nr = Some(<<1, 0, U32Max, 2>>), !.cn = Some(<<"c">>), !.pr = Some(<<0>>)]

FileRoots ==
  {ScenarioRoot, FullPart, BoxCube(V3(1)), OddCube, Triangle,
   ModelPart("root", Group, <<Triangle, ModelPart("grp", Group, <<BoxCube(V3(0))>>)>>)}

\* bytes of a script or of a PNG
Blobs == {"print(1)", "png"}

FileMoons ==
  {LoadedMoon(m) : m \in {None} \cup {Some(r) : r \in FileRoots}}
  \cup
  {Moon(Textures("skin" :> "png", <<[d |-> "skin", e |-> Some("skin_e")]>>),
        "main" :> "print(1)", Some(r),
        [Metadata(Str(<<"a", "\n", "b">>)) EXCEPT !.color = Some("#fff"),
                                                 !.name = "me", !.id = Some("x")]) :
     r \in {ScenarioRoot, Triangle}}
  \cup
  {Moon(Textures(Empty, <<>>), Empty, None, Metadata(Str(<<>>)))}

\* Compression::new(n) of --compress n
MaxLevel == 1

CompressionLevels ==
  {Compression_none, Compression_default, Compression_best} \cup 1..MaxLevel

FileInit ==
  /\ moon \in FileMoons
  /\ pc = "idle"
  /\ mode = "none"
  /\ stack = <<>>
  /\ elements = <<>>
  /\ result = NoResult
  /\ uuidLog = {}
  /\ ncalls = 0
  /\ MeshIdle
  /\ FileIdle
  /\ CliIdle
  /\ CliIdle

\* the avatar is serialized at a compression level
Serialize(level) ==
  /\ wire = None
  /\ wire' = Some(serialize(moon, RootName, level))
  /\ UNCHANGED <<moon, convVars, meshVars, cliVars, foreign, decoded>>

\* a field no struct names
Unrecognized(doc) == doc @@ ("zzz" :> 0)

\* the nesting levels of a file
Places == {"moon", "textures", "texture_data", "metadata", "part", "child",
           "cube_data", "face", "mesh_data", "child_cube_data", "child_face",
           "child_mesh_data"}

HasPlace(file, place) ==
  LET root == file.root
      has(doc, k) == k \in DOMAIN doc
      part == root.models
      child == root.models.chld[1]
  IN CASE place \in {"moon", "textures", "metadata"} -> TRUE
       [] place = "texture_data" -> root.textures.data # <<>>
       [] place = "part" -> has(root, "models")
       [] place = "child" -> has(root, "models") /\ part.chld # <<>>
       [] place = "cube_data" -> has(root, "models") /\ has(part, "cube_data")
       [] place = "face" ->
            has(root, "models") /\ has(part, "cube_data") /\ has(part.cube_data, "u")
       [] place = "mesh_data" -> has(root, "models") /\ has(part, "mesh_data")
       [] place = "child_cube_data" ->
            has(root, "models") /\ part.chld # <<>> /\ has(child, "cube_data")
       [] place = "child_face" ->
            /\ has(root, "models") /\ part.chld # <<>> /\ has(child, "cube_data")
            /\ has(child.cube_data, "e")
       [] place = "child_mesh_data" ->
            has(root, "models") /\ part.chld # <<>> /\ has(child, "mesh_data")

WithUnrecognized(file, place) ==
  CASE place = "moon" -> [file EXCEPT !.root = Unrecognized(@)]
    [] place = "textures" -> [file EXCEPT !.root.textures = Unrecognized(@)]
    [] place = "texture_data" -> [file EXCEPT !.root.textures.data[1] = Unrecognized(@)]
    [] place = "metadata" -> [file EXCEPT !.root.metadata = Unrecognized(@)]
    [] place = "part" -> [file EXCEPT !.root.models = Unrecognized(@)]
    [] place = "child" -> [file EXCEPT !.root.models.chld[1] = Unrecognized(@)]
    [] place = "cube_data" -> [file EXCEPT !.root.models.cube_data = Unrecognized(@)]
    [] place = "face" -> [file EXCEPT !.root.models.cube_data.u = Unrecognized(@)]
    [] place = "mesh_data" -> [file EXCEPT !.root.models.mesh_data = Unrecognized(@)]
    [] place = "child_cube_data" ->
         [file EXCEPT !.root.models.chld[1].cube_data = Unrecognized(@)]
    [] place = "child_face" ->
         [file EXCEPT !.root.models.chld[1].cube_data.e = Unrecognized(@)]
    [] place = "child_mesh_data" ->
         [file EXCEPT !.root.models.chld[1].mesh_data = Unrecognized(@)]

\* the file comes from a writer that knows a field this model of the format
\* does not
ForeignField(place) ==
  /\ IsSome(wire)
  /\ foreign = NotForeign
  /\ decoded = None
  /\ HasPlace(Unwrap(wire), place)
  /\ wire' = Some(WithUnrecognized(Unwrap(wire), place))
  /\ foreign' = [kind |-> "field", place |-> place]
  /\ UNCHANGED <<moon, convVars, meshVars, cliVars, decoded>>

\* the keys a cube node has next to those of every node, with and without
\* the one that has a default
CubeKeys == {{}, CubeFields \ {"inf"}, CubeFields}

MeshKeys == {{}, {"mesh_data"}}

\* a node of another writer: the fields of every node, and the chosen keys
\* of a cube and of a mesh
ForeignNodeDoc(cube, mesh) ==
  LET box == ModelPart_serialize(BoxCube(V3(0)))
      tri == ModelPart_serialize(Triangle)
  IN [k \in (DOMAIN box \ CubeFields) \cup cube \cup mesh |->
        IF k \in mesh THEN tri[k] ELSE box[k]]

\* the file's model tree is such a node
ForeignNode(cube, mesh) ==
  /\ IsSome(wire)
  /\ foreign = NotForeign
  /\ decoded = None
  /\ wire' = Some([Unwrap(wire) EXCEPT
                     !.root = ("models" :> ForeignNodeDoc(cube, mesh)) @@ @])
  /\ foreign' = [kind |-> "node", cube |-> cube, mesh |-> mesh]
  /\ UNCHANGED <<moon, convVars, meshVars, cliVars, decoded>>

\* get_moon_with_name on the file
Deserialize ==
  /\ IsSome(wire)
  /\ decoded = None
  /\ decoded' = Some(deserialize_from(Unwrap(wire)))
  /\ UNCHANGED <<moon, convVars, meshVars, cliVars, wire, foreign>>

FileNext ==
  \/ \E level \in CompressionLevels : Serialize(level)
  \/ \E place \in Places : ForeignField(place)
  \/ \E cube \in CubeKeys, mesh \in MeshKeys : ForeignNode(cube, mesh)
  \/ Deserialize

FileSpec == FileInit /\ [][FileNext]_vars

-----------------------------------------------------------------------------
(* fia repack: an avatar file is loaded, modified and written *)

\* values of --add-author: names, each a non-empty line other than "?"
AuthorNames == {Str(<<"x">>), Str(<<"y", "z">>)}

\* the authors field of the avatar file: empty, unspecified, one, two
StoredAuthors == {Str(<<>>), Placeholder, Str(<<"a">>), Str(<<"a", "\n", "b">>)}

\* bound on the number of --add-author options
MaxAdded == 2

\* the avatar in the file: one script, one texture
CliMoon(authors) ==
  Moon(Textures("skin" :> "png", <<TextureData>>), "main" :> "old()", None,
       Metadata(authors))

Paths == {"avatar.moon", "out.moon", "gone.moon", "a.lua", "b.lua", "gone.lua",
          "s.png"}

\* the files other than the avatar
OtherFiles ==
  [path \in Paths |->
     CASE path = "a.lua" -> Some("print(1)")
       [] path = "b.lua" -> Some("print(2)")
       [] path = "s.png" -> Some("png2")
       [] OTHER -> None]

AddScripts ==
  {<<>>, <<<<"main", "a.lua">>>>, <<<<"lib", "gone.lua">>>>,
   <<<<"lib", "a.lua">>, <<"main", "b.lua">>>>,
   <<<<"main", "a.lua">>, <<"main", "b.lua">>>>,
   <<<<"lib", "a.lua">>, <<"main", "gone.lua">>>>}

AddTextures == {<<>>, <<<<"skin", "s.png">>>>, <<<<"cape", "gone.lua">>>>}

Modifications ==
  [add_author : SeqsUpTo(AuthorNames, MaxAdded),
   add_script : AddScripts,
   add_texture : AddTextures,
   remove_script : {<<>>, <<"main">>},
   remove_texture : {<<>>, <<"skin">>}]

\* the command lines: every combination of options on the avatar file, and
\* one on a path where there is no file
Repacks ==
  {[file |-> "avatar.moon", out |-> out, compress |-> flags[2],
    no_compress |-> flags[1], if_smaller |-> if_smaller, modify |-> modify] :
     out \in {None, Some("out.moon")},
     flags \in ({<<FALSE, None>>, <<FALSE, Some(None)>>, <<TRUE, None>>}
                \cup {<<FALSE, Some(Some(n))>> : n \in 1..MaxLevel}),
     if_smaller \in BOOLEAN,
     modify \in Modifications}
  \cup
  {[file |-> "gone.moon", out |-> None, compress |-> None, no_compress |-> FALSE,
    if_smaller |-> if_smaller, modify |-> modify] :
     if_smaller \in BOOLEAN,
     modify \in {m \in Modifications : m.add_script = <<>> /\ m.add_texture = <<>>}}

CliInit ==
  /\ ConvIdle
  /\ MeshIdle
  /\ FileIdle
  /\ fs \in {[OtherFiles EXCEPT !["avatar.moon"] =
                Some(serialize(CliMoon(authors), RootName, level))] :
               authors \in StoredAuthors,
               level \in {Compression_none, Compression_best}}
  /\ cli = "start"
  /\ args = None
  /\ before = None
  /\ applied = None

\* Action::Repack: File::open(&file)? returns the error to main
RepackOpenFails ==
  /\ cli = "start"
  /\ \E a \in Repacks :
       /\ ~IsSome(fs[a.file])
       /\ args' = Some(a)
  /\ cli' = "failed"
  /\ UNCHANGED <<moon, convVars, meshVars, fileVars, fs, before, applied>>

\* Action::Repack on a file that opens: load, apply (its result is dropped),
\* serialize, and create and write the output unless --if-smaller is given
Repack ==
  /\ cli = "start"
  /\ \E a \in Repacks :
       /\ IsSome(fs[a.file])
       /\ LET loaded == deserialize_from(Unwrap(fs[a.file])).val
              done == apply(a.modify, loaded.moon, fs)
              data == serialize(done.moon, loaded.name,
                                compression(a.no_compress, a.compress))
              target == IF IsSome(a.out) THEN Unwrap(a.out) ELSE a.file
          IN /\ before' = Some([moon |-> loaded.moon, fs |-> fs])
             /\ moon' = done.moon
             /\ applied' = Some(done.ok)
             /\ fs' = IF a.if_smaller THEN fs ELSE [fs EXCEPT ![target] = Some(data)]
       /\ args' = Some(a)
  /\ cli' = "exited"
  /\ UNCHANGED <<convVars, meshVars, fileVars>>

CliNext ==
  \/ RepackOpenFails
  \/ Repack

CliSpec == CliInit /\ [][CliNext]_vars

-----------------------------------------------------------------------------
(* Helpers of the properties *)

\* the value the float fields are changed to (no part above uses it)
OtherFloat == 7

\* the parts that differ from p in exactly one float field of p itself
LocalFloatVariants(p) ==
  {[p EXCEPT !.rot = V3(OtherFloat)], [p EXCEPT !.piv = V3(OtherFloat)]}
  \cup
  (IF p.data.tag = "Cube"
   THEN {[p EXCEPT !.data.f = V3(OtherFloat)], [p EXCEPT !.data.t = V3(OtherFloat)],
         [p EXCEPT !.data.inf = OtherFloat]}
        \cup {[p EXCEPT !.data.cube_data[sd] =
                 Some([Unwrap(@) EXCEPT !.uv = [i \in 1..4 |-> OtherFloat]])] :
                sd \in {x \in SideNames : IsSome(p.data.cube_data[x])}}
        \cup {[p EXCEPT !.data.cube_data[sd] =
                 Some([Unwrap(@) EXCEPT !.rot = OtherFloat])] :
                sd \in {x \in SideNames : IsSome(p.data.cube_data[x])}}
   ELSE {})
  \cup
  (IF p.data.tag = "Mesh"
   THEN {[p EXCEPT !.data.mesh_data.vtx = [i \in DOMAIN @ |-> OtherFloat]],
         [p EXCEPT !.data.mesh_data.uvs = [i \in DOMAIN @ |-> OtherFloat]]}
   ELSE {})

\* ... or of one descendant
RECURSIVE FloatVariants(_)
FloatVariants(p) ==
  LocalFloatVariants(p)
  \cup UNION {{[p EXCEPT !.chld[i] = c] : c \in FloatVariants(p.chld[i])} : i \in DOMAIN p.chld}

\* the parts that differ from p in the animation payload of p or of one descendant
RECURSIVE AnimVariants(_)
AnimVariants(p) ==
  {[p EXCEPT !.anim = Some("nbt")]}
  \cup UNION {{[p EXCEPT !.chld[i] = c] : c \in AnimVariants(p.chld[i])} : i \in DOMAIN p.chld}

\* the parts that differ from p in one field that is neither the name, the
\* children, the variant, a texture index, a float nor the animation payload
\* (for a child: in its stored identifier)
FlagVariants(p) ==
  {[p EXCEPT !.vsb = ~@], [p EXCEPT !.smo = ~@], [p EXCEPT !.pt = Some("Head")],
   [p EXCEPT !.primary = Some("CUTOUT")], [p EXCEPT !.secondary = Some("EMISSIVE")],
   [p EXCEPT !.cn = Some(<<"c">>)], [p EXCEPT !.pr = Some(<<0>>)]}
  \cup {[p EXCEPT !.chld[i].nr = Some(<<0, 1, 2, 3>>)] :
          i \in {j \in DOMAIN p.chld : ~IsSome(p.chld[j].nr)}}

Derived(p) == ~IsSome(p.nr)

\* get_uuid_with_salt borrows the part: callers hold its results while the
\* part has not been consumed by a conversion (uuidLog does not change later)
Borrowed == pc = "idle" /\ uuidLog # {}

\* the frames of convert_elements calls in progress
ConvertFrames == {stack[i] : i \in {j \in DOMAIN stack : stack[j].fn = "convert_elements"}}

-----------------------------------------------------------------------------
(* Properties *)

\* C1: a part with a stored identifier nr = [w0, w1, w2, w3] gets the
\* identifier whose high half is (w0 << 32) | w1 and whose low half is
\* (w2 << 32) | w3, whatever the salt: every value get_uuid_with_salt has
\* returned for it (to a caller, or to a conversion in progress) is that one.
C1_StoredIdentifierDecoded ==
  LET expected(x) == Uuid_from_u64_pair(x[1] * Pow2(WordBits) + x[2],
                                        x[3] * Pow2(WordBits) + x[4])
  IN /\ IsSome(node.nr) =>
          \A e \in uuidLog : e.uuid = expected(Unwrap(node.nr))
     /\ \A fr \in ConvertFrames :
          IsSome(fr.part.nr) => fr.uuid = expected(Unwrap(fr.part.nr))

\* C1 witness: a stored identifier with a non-zero first word was resolved
\* under two different salts
C1_Witness ==
  /\ IsSome(node.nr)
  /\ Unwrap(node.nr)[1] # 0
  /\ \E e1 \in uuidLog, e2 \in uuidLog : e1.salt # e2.salt

\* C2: for a part without a stored identifier, calls of get_uuid_with_salt
\* with the same salt return the same identifier, however many calls were
\* made before; the conversion of that part with salt 0 derives it again.
C2_DerivedIdentifierDeterministic ==
  Derived(node) =>
    /\ \A e1 \in uuidLog, e2 \in uuidLog : e1.salt = e2.salt => e1.uuid = e2.uuid
    /\ (mode = "element" /\ stack # <<>>) =>
         \A e \in uuidLog : e.salt = 0 => e.uuid = stack[1].uuid

\* C2 witness: two calls with the same salt were made and agree
C2_Witness ==
  /\ Derived(node)
  /\ pc = "idle"
  /\ ncalls = 2
  /\ Cardinality(uuidLog) = 1

\* C3: for a part without a stored identifier, changing one float field of
\* the part or of a descendant (rot, piv, f, t, inf, face uv, face rot, mesh
\* vtx, mesh uvs) leaves the identifier of every salt unchanged.
C3_FloatFieldsDoNotChangeIdentifier ==
  (Borrowed /\ Derived(node)) =>
    \A e \in uuidLog : \A v \in FloatVariants(node) :
      get_uuid_with_salt(v, e.salt) = e.uuid

\* C3 witness: an identifier was derived for a group that has a cube and a
\* mesh below it
C3_Witness ==
  /\ Derived(node)
  /\ Borrowed
  /\ \E i \in DOMAIN node.chld : node.chld[i].data.tag = "Cube"
  /\ \E i \in DOMAIN node.chld : node.chld[i].data.tag = "Mesh"

\* C4 as claimed: parts without a stored identifier that agree on name,
\* children, variant and texture indices but differ in the visibility flag,
\* the smooth flag, the parent type, a render type, a collection list or a
\* child's stored identifier get the same identifier.
C4_OnlyNameChildrenVariantTexture ==
  (Borrowed /\ Derived(node)) =>
    \A e \in uuidLog : \A v \in FlagVariants(node) :
      get_uuid_with_salt(v, e.salt) = e.uuid

\* C4 amended: the hash reads every field except anim and the float fields.
\* Parts that differ only in anim (of the part or a descendant), alone or
\* together with a float field, get the same identifier; parts that differ in
\* vsb, smo, pt, primary, secondary, cn, pr or a child's nr feed different
\* writes to the hasher.
C4_HashReadsAllButAnimAndFloats ==
  (Borrowed /\ Derived(node)) =>
    /\ \A e \in uuidLog : \A v \in AnimVariants(node) :
         /\ get_uuid_with_salt(v, e.salt) = e.uuid
         /\ \A w \in LocalFloatVariants(v) : get_uuid_with_salt(w, e.salt) = e.uuid
    /\ \A v \in FlagVariants(node) : hash_ModelPart(v) # hash_ModelPart(node)

\* C4 witness: an identifier was derived for a part that has a child
C4_Witness ==
  /\ Derived(node)
  /\ Borrowed
  /\ node.chld # <<>>

\* the outliner a finished conversion produced: the list hierarchy() returns,
\* or the one item convert_elements returns
Outliner == IF result.kind = "Ok" THEN result.outliner ELSE <<result.item>>

Converted == pc = "done" /\ result.kind \in {"Ok", "item"}

\* the items standing for the children of the converted part
ChildItems == IF result.kind = "Ok" THEN result.outliner ELSE result.item.children

\* a Group whose two children are cubes of the same name and faces, without
\* stored identifiers, at different pivots
TwinCubes(p) ==
  /\ p.data.tag = "Group"
  /\ Len(p.chld) = 2
  /\ \A i \in 1..2 : p.chld[i].data.tag = "Cube" /\ Derived(p.chld[i])
  /\ p.chld[1].name = p.chld[2].name
  /\ p.chld[1].piv # p.chld[2].piv
  /\ hash_ModelPart(p.chld[1]) = hash_ModelPart(p.chld[2])

\* C5: converting a Group with two such cubes yields two Element-References
\* with different identifiers: the first is derived with salt 0, the second
\* with salt 1, the length of the element list when its conversion starts.
C5_TwinCubesGetDistinctIdentifiers ==
  (Converted /\ TwinCubes(node)) =>
    /\ Len(ChildItems) = 2
    /\ \A i \in 1..2 : ChildItems[i].tag = "Element"
    /\ ChildItems[1].uuid # ChildItems[2].uuid
    /\ \A i \in 1..2 :
         ChildItems[i].uuid = Uuid_to_string(get_uuid_with_salt(node.chld[i], i - 1))

\* C5 witness: such a Group was converted
C5_Witness == Converted /\ TwinCubes(node)

\* C6 as claimed: converting a Cube that has children never panics, and when
\* the conversion is over the caller holds an InvariantViolation error.
C6_CubeWithChildrenIsReturnedError ==
  /\ pc # "panicked"
  /\ (pc = "done" /\ mode = "element" /\ node.data.tag = "Cube" /\ node.chld # <<>>)
       => result.kind = "InvariantViolation"

\* C7 as claimed: converting a Mesh that has children does not end with a
\* successful result; the caller holds an error.
C7_MeshWithChildrenIsError ==
  (pc = "done" /\ mode = "element" /\ node.data.tag = "Mesh" /\ node.chld # <<>>)
    => result.kind \notin {"Ok", "item"}

FacesOf(el) ==
  {el.extra.faces[sd] : sd \in {"north", "east", "south", "west", "up", "down"}}

\* C8 as claimed: no Element in the element list has a face whose texture
\* index is not below the length of textures.data.
C8_NoFaceNamesMissingTextureSlot ==
  \A i \in DOMAIN elements : \A fc \in FacesOf(elements[i]) :
    (IsSome(fc) /\ IsSome(Unwrap(fc).texture))
      => Unwrap(Unwrap(fc).texture) < Len(moon.textures.data)

\* the one Element of the scenario: "box", a cube from [0,0,0] to [1,1,1]
\* whose only face is up, with uv [0,0,16,16] and texture 0
IsScenarioElement(el) ==
  /\ el.name = "box"
  /\ el.extra.type = "cube"
  /\ el.extra.from = <<0, 0, 0>>
  /\ el.extra.to = <<1, 1, 1>>
  /\ el.extra.faces.up = Some([uv |-> <<0, 0, 16, 16>>, texture |-> Some(0), rotation |-> 0])
  /\ \A sd \in {"north", "east", "south", "west", "down"} : el.extra.faces[sd] = None

IsRootGroupOverBox(item, els) ==
  /\ item.tag = "Group"
  /\ item.name = "root"
  /\ Len(item.children) = 1
  /\ item.children[1].tag = "Element"
  /\ item.children[1].uuid = els[1].uuid

\* C9 as claimed: converting the scenario's part yields exactly one Element
\* and an outliner holding exactly one Group "root" whose only child is the
\* reference to that Element.
C9_OutlinerHoldsRootGroup ==
  (Converted /\ node = ScenarioRoot) =>
    /\ Len(result.elements) = 1
    /\ IsScenarioElement(result.elements[1])
    /\ Len(Outliner) = 1
    /\ IsRootGroupOverBox(Outliner[1], result.elements)

\* C9 amended: both entry points yield exactly that one Element;
\* convert_elements returns the Group "root" whose only child is the reference
\* to it, while the outliner of hierarchy() holds that reference alone (the
\* part hierarchy() is called on is not itself in the outliner).
C9_ScenarioConversion ==
  (Converted /\ node = ScenarioRoot) =>
    /\ Len(result.elements) = 1
    /\ IsScenarioElement(result.elements[1])
    /\ result.elements = elements
    /\ mode = "element" => IsRootGroupOverBox(result.item, result.elements)
    /\ mode = "hierarchy" =>
         /\ Len(result.outliner) = 1
         /\ result.outliner[1] = OutlinerItem_Element(result.elements[1].uuid)

\* C9 witness: hierarchy() has converted the scenario's part
C9_Witness == Converted /\ node = ScenarioRoot /\ mode = "hierarchy"

\* the Element the Cube arm builds from a part, whatever its identifier
ElementOf(part) == [Element(part, Uuid_new_v4) EXCEPT !.uuid = ""]

\* the item stands for the part: a reference to an Element built from it when
\* the part is a Cube, otherwise a Group item of its name whose children stand
\* for the part's children, one for one and in their order
RECURSIVE StandsFor(_, _, _)
StandsFor(item, part, els) ==
  IF part.data.tag = "Cube"
  THEN /\ item.tag = "Element"
       /\ \E k \in DOMAIN els :
            els[k].uuid = item.uuid /\ [els[k] EXCEPT !.uuid = ""] = ElementOf(part)
  ELSE /\ item.tag = "Group"
       /\ item.name = part.name
       /\ Len(item.children) = Len(part.chld)
       /\ \A i \in DOMAIN part.chld : StandsFor(item.children[i], part.chld[i], els)

\* C18 as claimed: hierarchy() never panics; on a Cube or a Mesh it returns
\* Err carrying the part it was called on and has converted nothing; on a
\* Group it returns Ok with one outliner item per child, in child order.
C18_HierarchyErrOnLeafOkOnGroup ==
  mode = "hierarchy" =>
    /\ pc # "panicked"
    /\ pc = "done" =>
         IF node.data.tag = "Group"
         THEN /\ result.kind = "Ok"
              /\ Len(result.outliner) = Len(node.chld)
              /\ \A i \in DOMAIN node.chld :
                   StandsFor(result.outliner[i], node.chld[i], result.elements)
         ELSE /\ result = [kind |-> "Err", part |-> node]
              /\ elements = <<>>
              /\ stack = <<>>

\* the cubes a depth-first, left-to-right walk of the part meets
RECURSIVE CubesInOrder(_)
CubesInOrder(p) ==
  LET RECURSIVE below(_)
      below(i) == IF i > Len(p.chld) THEN <<>>
                  ELSE CubesInOrder(p.chld[i]) \o below(i + 1)
  IN (IF p.data.tag = "Cube" THEN <<p>> ELSE <<>>) \o below(1)

\* the parts the entry point converts: the part itself, or its children
ConvertedParts == IF mode = "hierarchy" THEN node.chld ELSE <<node>>

RECURSIVE CubesOfAll(_)
CubesOfAll(parts) ==
  IF parts = <<>> THEN <<>> ELSE CubesInOrder(Head(parts)) \o CubesOfAll(Tail(parts))

\* C20 as claimed: when a conversion is over, the outliner items stand for
\* the converted parts with the children of every Group item in the order of
\* the part's children, and the element list holds the Elements of the cubes
\* of the tree in depth-first, left-to-right order.
C20_PreOrderDepthFirst ==
  Converted =>
    /\ Len(Outliner) = Len(ConvertedParts)
    /\ \A i \in DOMAIN ConvertedParts :
         StandsFor(Outliner[i], ConvertedParts[i], result.elements)
    /\ LET cubes == CubesOfAll(ConvertedParts)
       IN /\ Len(result.elements) = Len(cubes)
          /\ \A k \in DOMAIN cubes :
               [result.elements[k] EXCEPT !.uuid = ""] = ElementOf(cubes[k])

\* every face has between 1 and 15 vertex indices and every index fits the
\* width fac was stored at
EncodableAt(fl, width) ==
  \A i \in DOMAIN fl :
    /\ Len(fl[i].vertices) \in 1..(Pow2(CountBits) - 1)
    /\ \A k \in DOMAIN fl[i].vertices : Fits(fl[i].vertices[k], width)

C12_SerializeDeserializeRoundTrip ==
  (IsSome(wire) /\ foreign = NotForeign) =>
    /\ [Unwrap(wire) EXCEPT !.gz = Compression_none]
         = serialize(moon, RootName, Compression_none)
    /\ IsSome(decoded) =>
         Unwrap(decoded) = Ok([moon |-> moon, name |-> RootName])

\* C12 witness: an avatar whose tree has a group with every optional field
\* set, a cube and a mesh came back from a file written at the best level
C12_Witness ==
  /\ IsSome(decoded)
  /\ foreign = NotForeign
  /\ Unwrap(wire).gz = Compression_best
  /\ moon.models = Some(FullPart)
  /\ Unwrap(decoded).ok
  /\ Unwrap(decoded).val.moon = moon

\* C13: a file with a field that no struct names, at any nesting level, is
\* not deserialized: get_moon_with_name returns an error.
C13_UnrecognizedFieldIsError ==
  (IsSome(decoded) /\ foreign.kind = "field") => ~Unwrap(decoded).ok

\* C13 witness: the unrecognized field was in the node of a child part
C13_Witness ==
  /\ IsSome(decoded)
  /\ foreign.kind = "field"
  /\ foreign.place = "child"
  /\ ~Unwrap(decoded).ok

\* C14: a node with a cube's keys and without the mesh's key decodes as a
\* Cube, one with the mesh's key and without a cube's as a Mesh, one with
\* neither as a Group, and one with both is an error.
C14_VariantFollowsFields ==
  (IsSome(decoded) /\ foreign.kind = "node") =>
    LET got == Unwrap(decoded)
        tag == Unwrap(got.val.moon.models).data.tag
    IN CASE foreign.cube # {} /\ foreign.mesh # {} -> ~got.ok
         [] foreign.cube # {} /\ foreign.mesh = {} -> got.ok /\ tag = "Cube"
         [] foreign.cube = {} /\ foreign.mesh # {} -> got.ok /\ tag = "Mesh"
         [] foreign.cube = {} /\ foreign.mesh = {} -> got.ok /\ tag = "Group"

\* C14 witness: a node with the three required keys of a cube, without inf,
\* was decoded as a Cube
C14_Witness ==
  /\ IsSome(decoded)
  /\ foreign.kind = "node"
  /\ foreign.cube = CubeFields \ {"inf"}
  /\ foreign.mesh = {}
  /\ Unwrap(decoded).ok
  /\ Unwrap(Unwrap(decoded).val.moon.models).data.tag = "Cube"

\* a repack has loaded the avatar and run apply on it
Ran == cli = "exited"

Modify == Unwrap(args).modify

Loaded == Unwrap(before).moon

\* C15: when the loaded authors field is "?" or empty and authors are added,
\* the author list afterwards is the added authors in the order given (so one
\* added author gives a list of length 1) and "?" is not in it.
C15_PlaceholderReplacedByAddedAuthors ==
  (/\ Ran
   /\ Loaded.metadata.authors \in {Placeholder, Str(<<>>)}
   /\ Modify.add_author # <<>>) =>
    /\ authors_of(moon.metadata.authors) = Modify.add_author
    /\ split(moon.metadata.authors, "\n") = Modify.add_author
    /\ Len(Modify.add_author) = 1 => Len(authors_of(moon.metadata.authors)) = 1

\* C15 witness: two authors were added to an avatar whose authors field
\* was "?"
C15_Witness ==
  /\ Ran
  /\ Loaded.metadata.authors = Placeholder
  /\ Len(Modify.add_author) = 2
  /\ Modify.add_author[1] # Modify.add_author[2]
  /\ authors_of(moon.metadata.authors) = Modify.add_author

IsAuthor(line) == line # Placeholder /\ line # Str(<<>>)

\* C16: the authors of the loaded avatar (its lines other than "?") are the
\* first of the list afterwards, in their order, and the added authors follow
\* in the order given; without --add-author the field is unchanged.
C16_AuthorsKeptAndAddedInOrder ==
  Ran =>
    IF Modify.add_author = <<>>
    THEN moon.metadata.authors = Loaded.metadata.authors
    ELSE split(moon.metadata.authors, "\n")
           = SelectSeq(split(Loaded.metadata.authors, "\n"), IsAuthor) \o Modify.add_author

\* C16 witness: two authors were added to an avatar that had two
C16_Witness ==
  /\ Ran
  /\ Len(authors_of(Loaded.metadata.authors)) = 2
  /\ Len(Modify.add_author) = 2
  /\ Len(authors_of(moon.metadata.authors)) = 4

\* C17 as claimed: after a repack with --if-smaller, the target file holds
\* the re-encoded avatar when that is shorter than the file that was read,
\* and what it held before when it is not.
C17_IfSmallerWritesWhenSmaller ==
  (Ran /\ Unwrap(args).if_smaller) =>
    LET a == Unwrap(args)
        data == serialize(moon, RootName, compression(a.no_compress, a.compress))
        target == IF IsSome(a.out) THEN Unwrap(a.out) ELSE a.file
    IN IF file_len(data) < file_len(Unwrap(Unwrap(before).fs[a.file]))
       THEN fs[target] = Some(data)
       ELSE fs[target] = Unwrap(before).fs[target]

NamesOf(pairs) == {pairs[i][1] : i \in DOMAIN pairs}

\* the file of the last option that gives the name
FileOf(pairs, name) ==
  pairs[CHOOSE i \in DOMAIN pairs :
          pairs[i][1] = name /\ \A j \in DOMAIN pairs : pairs[j][1] = name => j <= i][2]

\* after apply, every added name maps to the bytes of its file, and the
\* entries named by neither option are those of the map before
AddedAndKept(map, was, add, remove) ==
  /\ \A name \in NamesOf(add) :
       /\ name \in DOMAIN map
       /\ map[name] = Unwrap(Unwrap(before).fs[FileOf(add, name)])
  /\ \A name \in (DOMAIN map \cup DOMAIN was)
                   \ (NamesOf(add) \cup {remove[i] : i \in DOMAIN remove}) :
       /\ name \in DOMAIN map
       /\ name \in DOMAIN was
       /\ map[name] = was[name]

Entered == Len(stack') = Len(stack) + 1

Callee == stack'[Len(stack')]

\* C21: whenever a call of convert_elements is entered, from the command or
\* from the iterator of a Group, the identifier of its node is derived with
\* the salt that is the length of the element list at that moment; the list
\* has grown by one for every cube converted so far and by nothing else.
C21_SaltIsElementCountAtCallStart ==
  [][/\ Entered =>
          /\ elements' = elements
          /\ Callee.fn = "convert_elements" =>
               Callee.uuid = get_uuid_with_salt(Callee.part, Len(elements))
     /\ Len(elements') = Len(elements) + (IF ReturnCube THEN 1 ELSE 0)]_vars

\* C21 witness: a node without stored identifier is being converted below a
\* Group after a cube was emitted: its salt is 1, not the 0 of its parent
C21_Witness ==
  /\ pc = "converting"
  /\ Len(stack) >= 2
  /\ Top.fn = "convert_elements"
  /\ Top.next = 1
  /\ Derived(Top.part)
  /\ Len(elements) = 1
  /\ stack[Len(stack) - 1].fn = "convert_elements"
  /\ stack[Len(stack) - 1].uuid = get_uuid_with_salt(stack[Len(stack) - 1].part, 0)
  /\ Top.uuid = get_uuid_with_salt(Top.part, 1)
  /\ Top.uuid # get_uuid_with_salt(Top.part, 0)

\* the item the call that has just returned handed to its caller
Returned ==
  IF stack' = <<>> THEN result'.item
  ELSE LET out == stack'[Len(stack')].out IN out[Len(out)]

\* the Element-References of an item, in the order a pre-order walk meets them
RECURSIVE References(_)
References(item) ==
  LET RECURSIVE below(_)
      below(i) == IF i > Len(item.children) THEN <<>>
                  ELSE References(item.children[i]) \o below(i + 1)
  IN IF item.tag = "Element" THEN <<item.uuid>> ELSE below(1)

\* C22: the return of a Group node's conversion hands back a Group item of the
\* node's name and leaves the element list as it is; the list has grown, since
\* the call was entered, by the number of Elements its descendants emitted
\* (the references below the item), so by nothing for a childless Group.
C22_GroupAppendsNoElement ==
  [][ReturnGroup =>
       /\ elements' = elements
       /\ Returned.tag = "Group"
       /\ Returned.name = Top.part.name
       /\ Len(References(Returned)) <= Len(elements)
       /\ Derived(Top.part) =>
            Top.uuid = get_uuid_with_salt(Top.part,
                                          Len(elements) - Len(References(Returned)))
       /\ Top.part.chld = <<>> => Returned.children = <<>>]_vars

\* C22 witness: a childless Group was converted after a cube, and the list
\* still holds that cube's Element alone
C22_Witness ==
  /\ Converted
  /\ mode = "element"
  /\ node.data.tag = "Group"
  /\ Len(node.chld) = 2
  /\ node.chld[1].data.tag = "Cube"
  /\ node.chld[2] = EmptyGroup
  /\ result.item.children[2].tag = "Group"
  /\ result.item.children[2].children = <<>>
  /\ Len(result.elements) = 1

\* the references of a finished conversion's outliner, in pre-order
OutlinerReferences == References([tag |-> "Group", children |-> Outliner])

\* C23: the return of a childless Cube node's conversion appends exactly one
\* Element to the list and hands back the reference holding that Element's
\* identifier; and when a conversion is over, the references met in a
\* pre-order walk of the outliner are, one for one and in order, the
\* identifiers of the Elements of the list.
C23_ReferencesAreElementsInOrder ==
  [][/\ ReturnCube =>
          /\ Len(elements') = Len(elements) + 1
          /\ SubSeq(elements', 1, Len(elements)) = elements
          /\ Returned = [tag |-> "Element", uuid |-> elements'[Len(elements')].uuid]
          /\ elements'[Len(elements')].name = Top.part.name
     /\ Converted' =>
          /\ result'.elements = elements'
          /\ (OutlinerReferences)' = [k \in DOMAIN elements' |-> elements'[k].uuid]]_vars

\* C23 witness: a tree with a cube inside an inner Group and a cube after it
\* was converted; the two references name the two Elements, in order
C23_Witness ==
  /\ Converted
  /\ mode = "element"
  /\ node.data.tag = "Group"
  /\ Len(result.elements) = 2
  /\ result.elements[1].uuid # result.elements[2].uuid
  /\ Len(result.item.children) = 2
  /\ result.item.children[1].tag = "Group"
  /\ result.item.children[1].children = <<OutlinerItem_Element(result.elements[1].uuid)>>
  /\ result.item.children[2] = OutlinerItem_Element(result.elements[2].uuid)

\* the slot of Sided<Face> that each field of Faces is to be read from
SlotOf == [north |-> "n", south |-> "s", up |-> "u", down |-> "d", west |-> "w", east |-> "e"]

\* C24: the Element a Cube node's conversion appends has, in each of its face
\* fields north, south, up, down, west, east, the face of the node's slot n,
\* s, u, d, w, e: with that side's UV rectangle and rotation and
\* texture = Some(its texture index) when the side is present, and absent
\* when it is absent.
C24_SidesMapToNamedFaces ==
  [][ReturnCube =>
       LET el == elements'[Len(elements')]
           cube_data == Top.part.data.cube_data
       IN /\ DOMAIN el.extra.faces = DOMAIN SlotOf
          /\ \A f \in DOMAIN SlotOf :
               LET side == cube_data[SlotOf[f]]
               IN IF IsSome(side)
                  THEN el.extra.faces[f] =
                         Some([uv |-> Unwrap(side).uv, rotation |-> Unwrap(side).rot,
                               texture |-> Some(Unwrap(side).tex)])
                  ELSE el.extra.faces[f] = None]_vars

\* C24 witness: a cube with six different sides and a cube with absent sides
\* were converted
C24_Witness ==
  /\ Converted
  /\ node = ModelPart("root", Group, <<SixCube, BoxCube(V3(0))>>)
  /\ Len(elements) = 2
  /\ \A f \in DOMAIN SlotOf : IsSome(elements[1].extra.faces[f])
  /\ \A f, g \in DOMAIN SlotOf :
       f # g => elements[1].extra.faces[f] # elements[1].extra.faces[g]
  /\ elements[2].extra.faces.north = None
  /\ IsSome(elements[2].extra.faces.up)

\* C25: the Element a Cube node's conversion appends is a cube with autouv 0,
\* no box-UV, mirror-UV false, rescale false and inflate = Some(the node's inf),
\* whatever that value is; its from, to, origin and rotation are the node's
\* f, t, piv and rot.
C25_CubeElementFields ==
  [][ReturnCube =>
       LET el == elements'[Len(elements')]
           p == Top.part
       IN /\ el.extra.type = "cube"
          /\ el.extra.autouv = 0
          /\ el.extra.box_uv = None
          /\ el.extra.mirror_uv = Some(FALSE)
          /\ el.extra.rescale = FALSE
          /\ el.extra.inflate = Some(p.data.inf)
          /\ el.extra.from = p.data.f
          /\ el.extra.to = p.data.t
          /\ el.origin = p.piv
          /\ el.rotation = p.rot]_vars

\* C25 witness: an inflated, rotated cube and a cube with inflate 0 at
\* another pivot were converted
C25_Witness ==
  /\ Converted
  /\ node.data.tag = "Group"
  /\ node.chld = <<OddCube, BoxCube(V3(1))>>
  /\ Len(elements) = 2
  /\ elements[1].extra.inflate = Some(1)
  /\ elements[1].rotation = V3(1)
  /\ elements[1].extra.from = V3(1)
  /\ elements[2].extra.inflate = Some(0)
  /\ elements[2].origin = V3(1)
  /\ elements[2].extra.to = V3(1)

\* no node of the tree carries a stored identifier
RECURSIVE AllDerived(_)
AllDerived(p) == Derived(p) /\ \A i \in DOMAIN p.chld : AllDerived(p.chld[i])

\* the identifiers of the Group items of an outliner item, in pre-order
RECURSIVE GroupIds(_)
GroupIds(item) ==
  LET RECURSIVE below(_)
      below(i) == IF i > Len(item.children) THEN <<>>
                  ELSE GroupIds(item.children[i]) \o below(i + 1)
  IN IF item.tag = "Element" THEN <<>> ELSE <<item.uuid>> \o below(1)

\* every identifier of a finished conversion's output: of the Group items of
\* the outliner, then of the Elements
OutputIds ==
  Tail(GroupIds([tag |-> "Group", uuid |-> "", children |-> Outliner]))
    \o [k \in DOMAIN result.elements |-> result.elements[k].uuid]

\* C26 as claimed: when a tree without stored identifiers has been converted,
\* the identifiers of the Group items and of the Elements of the output are
\* pairwise distinct.
C26_OutputIdentifiersDistinct ==
  (Converted /\ AllDerived(node)) =>
    \A i, j \in DOMAIN OutputIds : i # j => OutputIds[i] # OutputIds[j]

\* C27: no step of a conversion removes, moves or rewrites an Element: the
\* list after the step starts with the list before it.
C27_ElementsAppendOnly ==
  [][/\ Len(elements') >= Len(elements)
     /\ SubSeq(elements', 1, Len(elements)) = elements]_vars

\* C27 witness: a second Element was appended behind the first while the
\* conversion was still under way
C27_Witness ==
  /\ pc = "converting"
  /\ Len(elements) = 2
  /\ elements[1] # elements[2]
  /\ stack # <<>>
  /\ Top.next = 3

\* C28 as claimed: every node's visibility flag is carried into what its
\* conversion yields: the Element a Cube node appends has visibility
\* Some(the node's vsb), and the Group item a Group or Mesh node returns has
\* the node's vsb as its visibility.
C28_VisibilityCarried ==
  [][/\ ReturnCube => elements'[Len(elements')].visibility = Some(Top.part.vsb)
     /\ (ReturnGroup \/ ReturnMesh) => Returned.visibility = Top.part.vsb]_vars

\* apply returned an error in the command that has run
ApplyFailed == Ran /\ applied = Some(FALSE)

\* C29 as claimed: when apply has returned an error, the avatar is exactly
\* the one that was loaded: no author added, no script or texture removed or
\* inserted.
C29_FailedApplyLeavesBundle ==
  ApplyFailed => moon = Loaded

\* C30 as claimed: a command whose modifications failed to apply has written
\* nothing: every file is as it was before the command, and none was created.
C30_FailedApplyWritesNothing ==
  ApplyFailed => fs = Unwrap(before).fs

\* C10 as claimed: converting a Mesh appends one Element of type mesh and
\* returns the reference to it.
C10_MeshBecomesElement ==
  (pc = "done" /\ mode = "element" /\ node.data.tag = "Mesh" /\ node.chld = <<>>) =>
    /\ Len(elements) = 1
    /\ elements[1].extra.type = "mesh"
    /\ result.item = OutlinerItem_Element(elements[1].uuid)

====
